---- MODULE Spec2Model ----
(***************************************************************************)
(* Model of doc-insight's NLPAnalyzer (src/nlp_analyzer.py) and of the     *)
(* part of process_documents (src/app/app.py) that drives it.              *)
(*                                                                         *)
(* A Python str is a sequence of one-character strings.  Offsets are       *)
(* 0-based as in Python: the character at offset i of s is s[i + 1], and   *)
(* s[a:b] is SubSeq(s, a + 1, b).                                          *)
(* Floating-point scores are fixed-point integers: a relevance_score or a  *)
(* keyword score is held in hundredths (the code rounds both to 2 places). *)
(***************************************************************************)
EXTENDS Integers, Sequences, FiniteSets, TLC

(***************************************************************************)
(* Characters and the str methods the analyzer uses                        *)
(***************************************************************************)
UpperSeq ==
  <<"A", "B", "C", "D", "E", "F", "G", "H", "I", "J", "K", "L", "M",
    "N", "O", "P", "Q", "R", "S", "T", "U", "V", "W", "X", "Y", "Z">>

LowerSeq ==
  <<"a", "b", "c", "d", "e", "f", "g", "h", "i", "j", "k", "l", "m",
    "n", "o", "p", "q", "r", "s", "t", "u", "v", "w", "x", "y", "z">>

DigitSeq == <<"0", "1", "2", "3", "4", "5", "6", "7", "8", "9">>

Range(f) == {f[i] : i \in DOMAIN f}

\* the sequence f with its elements evaluated once
List(f) == f \o <<>>

Upper == Range(UpperSeq)

Lower == Range(LowerSeq)

Digit == Range(DigitSeq)

\* \s of re and the whitespace of str.split / str.strip
Space == {" ", "\n", "\t"}

\* \w of re
WordChar == Upper \cup Lower \cup Digit \cup {"_"}

\* str.lower(), one character
LowerChar(c) ==
  IF c \in Upper
    THEN LowerSeq[CHOOSE i \in DOMAIN UpperSeq : UpperSeq[i] = c]
    ELSE c

\* str.lower()
LowerStr(s) == List([i \in DOMAIN s |-> LowerChar(s[i])])

\* str.strip()
RECURSIVE LStrip(_)
LStrip(s) ==
  IF s = <<>> \/ Head(s) \notin Space THEN s ELSE LStrip(Tail(s))

RECURSIVE RStrip(_)
RStrip(s) ==
  IF s = <<>> \/ s[Len(s)] \notin Space THEN s
  ELSE RStrip(SubSeq(s, 1, Len(s) - 1))

Strip(s) == RStrip(LStrip(s))

\* the first whitespace-delimited word of s (s does not start with whitespace)
RECURSIVE WordLen(_)
WordLen(s) ==
  IF s = <<>> \/ Head(s) \in Space THEN 0 ELSE 1 + WordLen(Tail(s))

\* str.split(): the whitespace-delimited tokens of s, none empty
RECURSIVE Split(_)
Split(s) ==
  LET t == LStrip(s)
      n == WordLen(t)
  IN  IF t = <<>> THEN <<>>
      ELSE <<SubSeq(t, 1, n)>> \o Split(SubSeq(t, n + 1, Len(t)))

\* offset of the first "\n" of s, or Len(s) when there is none
RECURSIVE LineLen(_)
LineLen(s) ==
  IF s = <<>> \/ Head(s) = "\n" THEN 0 ELSE 1 + LineLen(Tail(s))

\* str.split('\n'): the lines of s, empty ones kept
RECURSIVE SplitLines(_)
SplitLines(s) ==
  LET n == LineLen(s)
  IN  IF n = Len(s) THEN <<s>>
      ELSE <<SubSeq(s, 1, n)>> \o SplitLines(SubSeq(s, n + 2, Len(s)))

\* ' '.join(words)
RECURSIVE Join(_)
Join(words) ==
  IF words = <<>> THEN <<>>
  ELSE IF Len(words) = 1 THEN words[1]
  ELSE words[1] \o <<" ">> \o Join(Tail(words))

\* int(digits)
RECURSIVE ParseInt(_)
ParseInt(ds) ==
  IF ds = <<>> THEN 0
  ELSE 10 * ParseInt(SubSeq(ds, 1, Len(ds) - 1))
         + (CHOOSE i \in DOMAIN DigitSeq : DigitSeq[i] = ds[Len(ds)]) - 1

(***************************************************************************)
(* The regular expressions of the analyzer.  Every pattern it uses is a    *)
(* sequence of items, an item being a character class repeated greedily    *)
(* between min and max times (max = Unbounded for * and +).  TryMatch is   *)
(* re's backtracking matcher for such patterns: the longest repetition is  *)
(* tried first, and the first success decides where the match ends.        *)
(***************************************************************************)
Unbounded == -1

Cls(set, neg, min, max) == [set |-> set, neg |-> neg, min |-> min, max |-> max]

One(c) == Cls({c}, FALSE, 1, 1)

Literal(s) == List([i \in DOMAIN s |-> One(s[i])])

InClass(c, item) == (c \in item.set) # item.neg

\* how many characters from offset i on are in the class, at most item.max
RECURSIVE RunLen(_, _, _, _)
RunLen(item, s, i, n) ==
  IF i + n < Len(s) /\ (item.max = Unbounded \/ n < item.max)
       /\ InClass(s[i + n + 1], item)
    THEN RunLen(item, s, i, n + 1)
    ELSE n

NoMatch == -1

\* end offset of the match of items[k..] at offset i of s, or NoMatch
RECURSIVE TryMatch(_, _, _, _)
RECURSIVE TryCount(_, _, _, _, _)
TryMatch(items, k, s, i) ==
  IF k > Len(items) THEN i
  ELSE TryCount(items, k, s, i, RunLen(items[k], s, i, 0))

TryCount(items, k, s, i, c) ==
  IF c < items[k].min THEN NoMatch
  ELSE LET r == TryMatch(items, k + 1, s, i + c)
       IN  IF r # NoMatch THEN r ELSE TryCount(items, k, s, i, c - 1)

\* re.search from offset pos: <<start, end>> of the leftmost match, or <<>>
RECURSIVE Search(_, _, _)
Search(items, s, pos) ==
  IF pos > Len(s) THEN <<>>
  ELSE LET e == TryMatch(items, 1, s, pos)
       IN  IF e # NoMatch THEN <<pos, e>> ELSE Search(items, s, pos + 1)

\* [m.start() for m in re.finditer(pattern, s)]: matches do not overlap
RECURSIVE FindStarts(_, _, _)
FindStarts(items, s, pos) ==
  LET m == Search(items, s, pos)
  IN  IF m = <<>> THEN <<>>
      ELSE <<m[1]>> \o FindStarts(items, s, IF m[2] > m[1] THEN m[2] ELSE m[2] + 1)

\* re.sub(pattern, '', s)
RECURSIVE RemoveAll(_, _, _)
RemoveAll(items, s, pos) ==
  LET m == Search(items, s, pos)
  IN  IF m = <<>> THEN SubSeq(s, pos + 1, Len(s))
      ELSE SubSeq(s, pos + 1, m[1])
             \o RemoveAll(items, s, IF m[2] > m[1] THEN m[2] ELSE m[2] + 1)

Ws(min) == Cls(Space, FALSE, min, Unbounded)

NotNewline == Cls({"\n"}, TRUE, 1, Unbounded)

\* r'\[PAGE \d+\]'
PagePattern ==
  Literal(<<"[", "P", "A", "G", "E", " ">>)
    \o <<Cls(Digit, FALSE, 1, Unbounded), One("]")>>

\* the five section_patterns, in the order of the list
section_patterns ==
  << \* r'\n\s*[A-Z][^a-z\n]{10,}\s*\n'
     <<One("\n"), Ws(0), Cls(Upper, FALSE, 1, 1),
       Cls(Lower \cup {"\n"}, TRUE, 10, Unbounded), Ws(0), One("\n")>>,
     \* r'\n\s*\d+\.\s+[A-Z][^\n]+\n'
     <<One("\n"), Ws(0), Cls(Digit, FALSE, 1, Unbounded), One("."), Ws(1),
       Cls(Upper, FALSE, 1, 1), NotNewline, One("\n")>>,
     \* r'\n\s*[A-Z][^a-z\n]+:\s*\n'
     <<One("\n"), Ws(0), Cls(Upper, FALSE, 1, 1),
       Cls(Lower \cup {"\n"}, TRUE, 1, Unbounded), One(":"), Ws(0), One("\n")>>,
     \* r'\n\s*#{1,6}\s+[^\n]+\n'
     <<One("\n"), Ws(0), Cls({"#"}, FALSE, 1, 6), Ws(1), NotNewline, One("\n")>>,
     \* r'\[PAGE \d+\]'
     PagePattern >>

(***************************************************************************)
(* NLPAnalyzer._extract_page_number and _extract_title                     *)
(***************************************************************************)
\* the digits of the first page marker of s, or <<>> when s has none
PageDigits(s) ==
  LET m == Search(PagePattern, s, 0)
  IN  IF m = <<>> THEN <<>> ELSE SubSeq(s, m[1] + 7, m[2] - 1)

\* r'\[PAGE (\d)': one digit of the marker
_extract_page_number_one_digit(s) ==
  IF Search(PagePattern, s, 0) # <<>> THEN ParseInt(SubSeq(PageDigits(s), 1, 1)) ELSE 1

_extract_page_number(s) ==
  IF Search(PagePattern, s, 0) # <<>> THEN ParseInt(PageDigits(s)) ELSE 1

\* re.sub(r'^\d+\.\s*', '', s)
StripNumbering(s) ==
  LET e == TryMatch(<<Cls(Digit, FALSE, 1, Unbounded), One("."), Ws(0)>>, 1, s, 0)
  IN  IF e = NoMatch THEN s ELSE SubSeq(s, e + 1, Len(s))

\* re.sub(r':$', '', s), s without a newline
StripColon(s) ==
  IF s # <<>> /\ s[Len(s)] = ":" THEN SubSeq(s, 1, Len(s) - 1) ELSE s

CleanTitle(line) == StripColon(StripNumbering(Strip(RemoveAll(PagePattern, line, 0))))

TitleMinWords == 2

TitleMaxWords == 15

FallbackWords == 8

Ellipsis == <<".", ".", ".">>

RECURSIVE FirstTitle(_)
FirstTitle(lines) ==
  IF lines = <<>> THEN <<>>
  ELSE LET line == Strip(Head(lines))
           n == Len(Split(line))
       IN  IF line # <<>> /\ n >= TitleMinWords /\ n <= TitleMaxWords
                /\ CleanTitle(line) # <<>>
             THEN CleanTitle(line)
             ELSE FirstTitle(Tail(lines))

_extract_title(s) ==
  LET t == FirstTitle(SplitLines(s))
      words == Split(s)
  IN  IF t # <<>> THEN t
      ELSE Join(SubSeq(words, 1, IF Len(words) < FallbackWords THEN Len(words) ELSE FallbackWords))
             \o (IF Len(words) > FallbackWords THEN Ellipsis ELSE <<>>)

(***************************************************************************)
(* NLPAnalyzer.extract_sections                                            *)
(***************************************************************************)
\* boundaries after the loop over section_patterns and the final append
RECURSIVE PatternStarts(_, _)
PatternStarts(k, s) ==
  IF k > Len(section_patterns) THEN {}
  ELSE Range(FindStarts(section_patterns[k], s, 0)) \cup PatternStarts(k + 1, s)

\* boundaries when the page-break pattern is not in the list
BoundariesOfHeaders(s) ==
  {0} \cup (PatternStarts(1, s) \ Range(FindStarts(PagePattern, s, 0))) \cup {Len(s)}

Boundaries(s) == {0} \cup PatternStarts(1, s) \cup {Len(s)}

\* sorted(set(boundaries))
RECURSIVE SortedSeq(_)
SortedSeq(S) ==
  IF S = {} THEN <<>>
  ELSE LET m == CHOOSE x \in S : \A y \in S : x <= y
       IN  <<m>> \o SortedSeq(S \ {m})

\* the dict extract_sections builds for one candidate
NewSection(section_text) ==
  [title |-> _extract_title(section_text),
   content |-> section_text,
   page_number |-> _extract_page_number(section_text),
   word_count |-> Len(Split(section_text))]

\* len(section_text) >= min_length: characters counted for words
KeepsCandidateByChars(section_text, min_len) == Len(section_text) >= min_len

\* the min_length filter of the candidate text[start:end].strip()
KeepsCandidate(section_text, min_len) == Len(Split(section_text)) >= min_len

RECURSIVE SectionsFrom(_, _, _, _)
SectionsFrom(s, bs, i, min_len) ==
  IF i > Len(bs) - 1 THEN <<>>
  ELSE LET section_text == Strip(SubSeq(s, bs[i] + 1, bs[i + 1]))
       IN  (IF KeepsCandidate(section_text, min_len)
              THEN <<NewSection(section_text)>> ELSE <<>>)
             \o SectionsFrom(s, bs, i + 1, min_len)

extract_sections(s, min_len) ==
  IF s = <<>> THEN <<>>
  ELSE SectionsFrom(s, SortedSeq(Boundaries(s)), 1, min_len)

(***************************************************************************)
(* Arithmetic on fixed-point numbers, and list.sort                        *)
(***************************************************************************)
\* n / d rounded to the nearest integer, a tie to the even one (round())
RoundDiv(n, d) ==
  LET q == n \div d
      r == n % d
  IN  IF 2 * r > d \/ (2 * r = d /\ q % 2 = 1) THEN q + 1 ELSE q

\* math.log(a / b) in units of 1e-5, for a >= b > 0
RECURSIVE Ln1e5(_, _)
Ln1e5(a, b) ==
  IF a >= 2 * b THEN 69315 + Ln1e5(a, 2 * b)
  ELSE LET y == ((a - b) * 100000) \div (a + b)
           y2 == (y * y) \div 100000
           t3 == (y * y2) \div 100000
           t5 == (t3 * y2) \div 100000
           t7 == (t5 * y2) \div 100000
       IN  2 * (y + t3 \div 3 + t5 \div 5 + t7 \div 7)

\* floor of the square root of n
RECURSIVE SqrtBetween(_, _, _)
SqrtBetween(n, lo, hi) ==
  IF lo >= hi THEN lo
  ELSE LET mid == (lo + hi + 1) \div 2
       IN  IF mid * mid <= n THEN SqrtBetween(n, mid, hi)
           ELSE SqrtBetween(n, lo, mid - 1)

ISqrt(n) == SqrtBetween(n, 0, IF n < 46340 THEN n ELSE 46340)

\* the pair put before the pairs of the same key
RECURSIVE InsertUnstable(_, _)
InsertUnstable(sorted, p) ==
  IF sorted = <<>> THEN <<p>>
  ELSE IF Head(sorted)[1] > p[1]
    THEN <<Head(sorted)>> \o InsertUnstable(Tail(sorted), p)
    ELSE <<p>> \o sorted

\* a pair <<key, item>> put into a list sorted by descending key, after the
\* pairs of the same key
RECURSIVE InsertDesc(_, _)
InsertDesc(sorted, p) ==
  IF sorted = <<>> THEN <<p>>
  ELSE IF Head(sorted)[1] >= p[1]
    THEN <<Head(sorted)>> \o InsertDesc(Tail(sorted), p)
    ELSE <<p>> \o sorted

\* list.sort(key=..., reverse=True) on pairs <<key, item>>: descending by key,
\* pairs of equal key in their order in the list
RECURSIVE SortDesc(_)
SortDesc(pairs) ==
  IF pairs = <<>> THEN <<>>
  ELSE InsertDesc(SortDesc(SubSeq(pairs, 1, Len(pairs) - 1)), pairs[Len(pairs)])

\* seq[:n + 1]
SliceOneMore(seq, n) ==
  IF n + 1 >= 0 THEN SubSeq(seq, 1, IF n + 1 < Len(seq) THEN n + 1 ELSE Len(seq))
  ELSE SubSeq(seq, 1, IF Len(seq) + n + 1 > 0 THEN Len(seq) + n + 1 ELSE 0)

\* seq[:n]
Slice(seq, n) ==
  IF n >= 0 THEN SubSeq(seq, 1, IF n < Len(seq) THEN n ELSE Len(seq))
  ELSE SubSeq(seq, 1, IF Len(seq) + n > 0 THEN Len(seq) + n ELSE 0)

(***************************************************************************)
(* NLPAnalyzer._extract_keywords                                           *)
(***************************************************************************)
stop_words ==
  { <<"t", "h", "e">>, <<"a">>, <<"a", "n">>, <<"a", "n", "d">>, <<"o", "r">>,
    <<"b", "u", "t">>, <<"i", "n">>, <<"o", "n">>, <<"a", "t">>, <<"t", "o">>,
    <<"f", "o", "r">>, <<"o", "f">>, <<"w", "i", "t", "h">>, <<"b", "y">>,
    <<"f", "r", "o", "m">>, <<"u", "p">>, <<"a", "b", "o", "u", "t">>,
    <<"i", "n", "t", "o">>, <<"t", "h", "r", "o", "u", "g", "h">>,
    <<"d", "u", "r", "i", "n", "g">>, <<"b", "e", "f", "o", "r", "e">>,
    <<"a", "f", "t", "e", "r">>, <<"a", "b", "o", "v", "e">>,
    <<"b", "e", "l", "o", "w">>, <<"b", "e", "t", "w", "e", "e", "n">>,
    <<"a", "m", "o", "n", "g">>, <<"u", "n", "d", "e", "r">>,
    <<"o", "v", "e", "r">>, <<"i", "s">>, <<"a", "r", "e">>, <<"w", "a", "s">>,
    <<"w", "e", "r", "e">>, <<"b", "e">>, <<"b", "e", "e", "n">>,
    <<"b", "e", "i", "n", "g">>, <<"h", "a", "v", "e">>, <<"h", "a", "s">>,
    <<"h", "a", "d">>, <<"d", "o">>, <<"d", "o", "e", "s">>, <<"d", "i", "d">>,
    <<"w", "i", "l", "l">>, <<"w", "o", "u", "l", "d">>,
    <<"c", "o", "u", "l", "d">>, <<"s", "h", "o", "u", "l", "d">>,
    <<"m", "a", "y">>, <<"m", "i", "g", "h", "t">>, <<"m", "u", "s", "t">>,
    <<"c", "a", "n">>, <<"t", "h", "i", "s">>, <<"t", "h", "a", "t">>,
    <<"t", "h", "e", "s", "e">>, <<"t", "h", "o", "s", "e">> }

MinKeywordLen == 3

MaxKeywords == 20

\* re.sub(r'[^\w\s]', ' ', text.lower())
CleanText(s) ==
  List([i \in DOMAIN s |->
          IF LowerChar(s[i]) \in WordChar \cup Space THEN LowerChar(s[i]) ELSE " "])

IsKeyword(word) == Len(word) >= MinKeywordLen /\ word \notin stop_words

\* the distinct elements of words, in the order of their first occurrence
RECURSIVE Distinct(_)
Distinct(words) ==
  IF words = <<>> THEN <<>>
  ELSE LET rest == Distinct(SubSeq(words, 1, Len(words) - 1))
           w == words[Len(words)]
       IN  IF w \in Range(rest) THEN rest ELSE Append(rest, w)

Occurrences(w, words) == Cardinality({i \in DOMAIN words : words[i] = w})

\* Counter(words).most_common(n)
most_common(words, n) ==
  LET keys == Distinct(words)
      pairs == List([i \in DOMAIN keys |-> <<Occurrences(keys[i], words), keys[i]>>])
  IN  Slice(SortDesc(pairs), n)

_extract_keywords(s) ==
  IF s = <<>> THEN <<>>
  ELSE LET top == most_common(SelectSeq(Split(CleanText(s)), IsKeyword), MaxKeywords)
       IN  List([i \in DOMAIN top |-> top[i][2]])

(***************************************************************************)
(* NLPAnalyzer._get_persona_keywords and _calculate_keyword_score          *)
(***************************************************************************)
TravelPlanner == <<"T", "r", "a", "v", "e", "l", " ", "P", "l", "a", "n", "n", "e", "r">>

BusinessAnalyst == <<"B", "u", "s", "i", "n", "e", "s", "s", " ", "A", "n", "a", "l", "y", "s", "t">>

ResearchScientist == <<"R", "e", "s", "e", "a", "r", "c", "h", " ", "S", "c", "i", "e", "n", "t", "i", "s", "t">>

MarketingManager == <<"M", "a", "r", "k", "e", "t", "i", "n", "g", " ", "M", "a", "n", "a", "g", "e", "r">>

ProjectManager == <<"P", "r", "o", "j", "e", "c", "t", " ", "M", "a", "n", "a", "g", "e", "r">>

_get_persona_keywords(persona) ==
  CASE persona = TravelPlanner ->
         << <<"t", "r", "a", "v", "e", "l">>, <<"t", "r", "i", "p">>,
            <<"d", "e", "s", "t", "i", "n", "a", "t", "i", "o", "n">>,
            <<"h", "o", "t", "e", "l">>,
            <<"r", "e", "s", "t", "a", "u", "r", "a", "n", "t">>,
            <<"a", "c", "t", "i", "v", "i", "t", "y">>, <<"t", "o", "u", "r">>,
            <<"v", "i", "s", "i", "t">>, <<"e", "x", "p", "l", "o", "r", "e">> >>
    [] persona = BusinessAnalyst ->
         << <<"b", "u", "s", "i", "n", "e", "s", "s">>,
            <<"m", "a", "r", "k", "e", "t">>,
            <<"a", "n", "a", "l", "y", "s", "i", "s">>, <<"d", "a", "t", "a">>,
            <<"r", "e", "v", "e", "n", "u", "e">>,
            <<"s", "t", "r", "a", "t", "e", "g", "y">>,
            <<"c", "o", "m", "p", "e", "t", "i", "t", "i", "v", "e">>,
            <<"t", "r", "e", "n", "d">> >>
    [] persona = ResearchScientist ->
         << <<"r", "e", "s", "e", "a", "r", "c", "h">>,
            <<"s", "t", "u", "d", "y">>, <<"m", "e", "t", "h", "o", "d">>,
            <<"d", "a", "t", "a">>, <<"a", "n", "a", "l", "y", "s", "i", "s">>,
            <<"f", "i", "n", "d", "i", "n", "g", "s">>,
            <<"e", "x", "p", "e", "r", "i", "m", "e", "n", "t">>,
            <<"r", "e", "s", "u", "l", "t", "s">> >>
    [] persona = MarketingManager ->
         << <<"m", "a", "r", "k", "e", "t", "i", "n", "g">>,
            <<"c", "a", "m", "p", "a", "i", "g", "n">>,
            <<"a", "u", "d", "i", "e", "n", "c", "e">>,
            <<"b", "r", "a", "n", "d">>,
            <<"p", "r", "o", "m", "o", "t", "i", "o", "n">>,
            <<"a", "d", "v", "e", "r", "t", "i", "s", "i", "n", "g">>,
            <<"c", "u", "s", "t", "o", "m", "e", "r">> >>
    [] persona = ProjectManager ->
         << <<"p", "r", "o", "j", "e", "c", "t">>,
            <<"t", "i", "m", "e", "l", "i", "n", "e">>,
            <<"r", "e", "q", "u", "i", "r", "e", "m", "e", "n", "t", "s">>,
            <<"d", "e", "l", "i", "v", "e", "r", "a", "b", "l", "e">>,
            <<"m", "i", "l", "e", "s", "t", "o", "n", "e">>,
            <<"r", "e", "s", "o", "u", "r", "c", "e">>,
            <<"p", "l", "a", "n", "n", "i", "n", "g">> >>
    [] OTHER -> <<>>

\* str.count(k): the occurrences of k in s from offset i on, none overlapping
RECURSIVE CountFrom(_, _, _)
CountFrom(k, s, i) ==
  IF i + Len(k) > Len(s) THEN 0
  ELSE IF SubSeq(s, i + 1, i + Len(k)) = k THEN 1 + CountFrom(k, s, i + Len(k))
  ELSE CountFrom(k, s, i + 1)

RECURSIVE SumSeq(_)
SumSeq(ns) == IF ns = <<>> THEN 0 ELSE Head(ns) + SumSeq(Tail(ns))

JobWeight == 15

PersonaWeight == 8

LengthBonus == 2

OptimalMin == 50

OptimalMax == 500

\* the section quality bonus, in units of 1e-4
QualityBonus(word_count) ==
  IF OptimalMin <= word_count /\ word_count <= OptimalMax THEN LengthBonus * 10000
  ELSE IF word_count > OptimalMax THEN Ln1e5(word_count, OptimalMax) \div 10
  ELSE 0

\* _calculate_keyword_score raises ZeroDivisionError: a job keyword occurs in
\* a content that has no word
KeywordScoreRaises(content, job) ==
  /\ content # <<>>
  /\ Len(Split(content)) = 0
  /\ \E k \in Range(_extract_keywords(job)) : CountFrom(LowerStr(k), LowerStr(content), 0) > 0

\* the keyword score of a section, in hundredths
_calculate_keyword_score(content, persona, job) ==
  IF content = <<>> THEN 0
  ELSE LET content_lower == LowerStr(content)
           word_count == Len(Split(content))
           job_keywords == _extract_keywords(job)
           persona_keywords == _get_persona_keywords(persona)
           counts == List([i \in DOMAIN job_keywords |->
                             CountFrom(LowerStr(job_keywords[i]), content_lower, 0)])
           hits == {i \in DOMAIN persona_keywords :
                      CountFrom(LowerStr(persona_keywords[i]), content_lower, 0) > 0}
           job_part == IF SumSeq(counts) = 0 THEN 0
                       ELSE (SumSeq(counts) * JobWeight * 10000) \div word_count
       IN  RoundDiv(job_part + Cardinality(hits) * PersonaWeight * 10000
                      + QualityBonus(word_count), 100)

(***************************************************************************)
(* NLPAnalyzer.analyze_subsection, _split_sentences and                    *)
(* _get_important_sentences                                                *)
(***************************************************************************)
SentenceEnd == {".", "!", "?"}

MinSentenceWords == 5

KeywordBonus == 2

MaxSentences == 3

SummaryKeywords == 10

\* offset of the first sentence-ending character of s, or Len(s)
SentenceLen(s) ==
  IF \A i \in DOMAIN s : s[i] \notin SentenceEnd THEN Len(s)
  ELSE (CHOOSE i \in DOMAIN s :
          /\ s[i] \in SentenceEnd
          /\ \A j \in 1 .. i - 1 : s[j] \notin SentenceEnd) - 1

\* s without the run of sentence-ending characters it starts with
RECURSIVE SkipEnds(_)
SkipEnds(s) ==
  IF s = <<>> \/ Head(s) \notin SentenceEnd THEN s ELSE SkipEnds(Tail(s))

\* re.split(r'[.!?]+', text): the pieces between the runs, empty ones kept
RECURSIVE SentencePieces(_)
SentencePieces(s) ==
  IF SentenceLen(s) = Len(s) THEN <<s>>
  ELSE <<SubSeq(s, 1, SentenceLen(s))>>
         \o SentencePieces(SkipEnds(SubSeq(s, SentenceLen(s) + 1, Len(s))))

Stripped(pieces) == List([i \in DOMAIN pieces |-> Strip(pieces[i])])

_split_sentences(text) ==
  SelectSeq(Stripped(SentencePieces(text)), LAMBDA s : s # <<>>)

\* len(sentence.split()) + len(keywords) * 2
SentenceScore(sentence) ==
  Len(Split(sentence)) + Len(_extract_keywords(sentence)) * KeywordBonus

\* a filter that keeps every sentence
AnyLength(sentence) == TRUE

\* the sentences the loop scores: those of at least 5 words
LongEnough(sentence) == Len(Split(sentence)) >= MinSentenceWords

\* scored_sentences, as pairs <<score, sentence>>
Scored(kept) == List([i \in DOMAIN kept |-> <<SentenceScore(kept[i]), kept[i]>>])

\* the sentences of the first max_sentences pairs of the sorted list
TopSentences(sorted, max_sentences) ==
  List([i \in DOMAIN Slice(sorted, max_sentences) |-> sorted[i][2]])

_get_important_sentences(sentences, max_sentences) ==
  IF sentences = <<>> THEN <<>>
  ELSE TopSentences(SortDesc(Scored(SelectSeq(sentences, LongEnough))), max_sentences)

analyze_subsection(text) ==
  IF text = <<>> THEN [summary |-> <<>>, keywords |-> <<>>]
  ELSE [summary |-> Join(_get_important_sentences(_split_sentences(text), MaxSentences)),
        keywords |-> Slice(_extract_keywords(text), SummaryKeywords)]

(***************************************************************************)
(* The inputs of a processing request                                      *)
(***************************************************************************)
MaxDocs == 2

MaxMaxSections == 3

MinSectionLength == 2

\* the uploaded documents, decoded
Documents ==
  { [filename |-> "a.pdf", content |-> <<"[", "P", "A", "G", "E", " ", "1", "]", "t", "r", "i", "p", " ", "h", "o", "t", "e", "l", "[", "P", "A", "G", "E", " ", "2", "]", "a", "u", "d", "i", "t", " ", "p", "l", "a", "n", " ", "t", "h", "e">>],
    [filename |-> "b.txt", content |-> <<"T", "r", "i", "p", "s", ":", " ", "t", "r", "i", "p", "s", " ", "h", "o", "t", "e", "l">>],
    [filename |-> "c.txt", content |-> <<"A", "u", "d", "i", "t", "o", "r", " ", "a", "u", "d", "i", "t">>] }

Personas == {TravelPlanner, <<"A", "u", "d", "i", "t", "o", "r">>}

Jobs == {<<"P", "l", "a", "n", " ", "a", " ", "t", "r", "i", "p">>, <<"a", "u", "d", "i", "t">>}

MaxSectionsValues == -1 .. MaxMaxSections

(***************************************************************************)
(* The TfidfVectorizer that __init__ builds (max_features=1000,            *)
(* stop_words='english', ngram_range=(1, 2), min_df=1, max_df=0.95) and    *)
(* cosine_similarity.  A weight is held in thousandths, a component of a   *)
(* normalised row and a similarity in units of 1e-4.  max_features never   *)
(* prunes here: a corpus of the model has far fewer than 1000 terms.       *)
(***************************************************************************)
min_df == 1

max_df_percent == 95

NgramMax == 2

MinTokenLen == 2

\* the words of the vectorizer's 'english' stop list that the texts of the
\* model can hold
EnglishStopWords ==
  { <<"t", "h", "e">>, <<"a">>, <<"a", "n">>, <<"a", "n", "d">>, <<"o", "r">>,
    <<"b", "u", "t">>, <<"i", "n">>, <<"o", "n">>, <<"a", "t">>, <<"t", "o">>,
    <<"f", "o", "r">>, <<"o", "f">>, <<"w", "i", "t", "h">>, <<"b", "y">>,
    <<"f", "r", "o", "m">>, <<"u", "p">>, <<"a", "b", "o", "u", "t">>,
    <<"i", "n", "t", "o">>, <<"t", "h", "r", "o", "u", "g", "h">>,
    <<"d", "u", "r", "i", "n", "g">>, <<"b", "e", "f", "o", "r", "e">>,
    <<"a", "f", "t", "e", "r">>, <<"a", "b", "o", "v", "e">>,
    <<"b", "e", "l", "o", "w">>, <<"b", "e", "t", "w", "e", "e", "n">>,
    <<"a", "m", "o", "n", "g">>, <<"u", "n", "d", "e", "r">>,
    <<"o", "v", "e", "r">>, <<"i", "s">>, <<"a", "r", "e">>, <<"w", "a", "s">>,
    <<"w", "e", "r", "e">>, <<"b", "e">>, <<"b", "e", "e", "n">>,
    <<"b", "e", "i", "n", "g">>, <<"h", "a", "v", "e">>, <<"h", "a", "s">>,
    <<"h", "a", "d">>, <<"d", "o">>, <<"w", "i", "l", "l">>,
    <<"w", "o", "u", "l", "d">>, <<"c", "o", "u", "l", "d">>,
    <<"s", "h", "o", "u", "l", "d">>, <<"m", "a", "y">>,
    <<"m", "i", "g", "h", "t">>, <<"m", "u", "s", "t">>, <<"c", "a", "n">>,
    <<"t", "h", "i", "s">>, <<"t", "h", "a", "t">>, <<"t", "h", "e", "s", "e">>,
    <<"t", "h", "o", "s", "e">>, <<"t", "o", "p">>, <<"p", "a", "r", "t">>,
    <<"s", "y", "s", "t", "e", "m">> }

\* the default token_pattern r'(?u)\b\w\w+\b' on the lower-cased document
Tokenize(doc) ==
  LET lowered == LowerStr(doc)
      spaced == List([i \in DOMAIN lowered |->
                        IF lowered[i] \in WordChar THEN lowered[i] ELSE " "])
  IN  SelectSeq(Split(spaced), LAMBDA w : Len(w) >= MinTokenLen)

\* the analyzer: stop words dropped, then the unigrams followed by the bigrams
Analyze(doc) ==
  LET toks == SelectSeq(Tokenize(doc), LAMBDA w : w \notin EnglishStopWords)
  IN  IF NgramMax < 2 \/ Len(toks) < 2 THEN toks
      ELSE toks \o [i \in 1 .. Len(toks) - 1 |-> toks[i] \o <<" ">> \o toks[i + 1]]

\* code point order of the characters of a term
CharOrder == <<" ">> \o DigitSeq \o <<"_">> \o LowerSeq

CharRank(c) == CHOOSE i \in DOMAIN CharOrder : CharOrder[i] = c

RECURSIVE StrLess(_, _)
StrLess(a, b) ==
  IF b = <<>> THEN FALSE
  ELSE IF a = <<>> THEN TRUE
  ELSE IF Head(a) # Head(b) THEN CharRank(Head(a)) < CharRank(Head(b))
  ELSE StrLess(Tail(a), Tail(b))

\* the terms of a set in sorted order: feature j is the j-th term
RECURSIVE InsertTerm(_, _)
InsertTerm(sorted, t) ==
  IF sorted = <<>> THEN <<t>>
  ELSE IF StrLess(t, Head(sorted)) THEN <<t>> \o sorted
  ELSE <<Head(sorted)>> \o InsertTerm(Tail(sorted), t)

RECURSIVE SortedTerms(_)
SortedTerms(S) ==
  IF S = {} THEN <<>>
  ELSE LET t == CHOOSE x \in S : TRUE
       IN  InsertTerm(SortedTerms(S \ {t}), t)

DocFreq(term, analyzed) == Cardinality({d \in DOMAIN analyzed : term \in Range(analyzed[d])})

\* the terms _limit_features keeps: min_df <= df <= max_df * n_doc
KeptTerms(analyzed) ==
  {t \in UNION {Range(analyzed[d]) : d \in DOMAIN analyzed} :
     /\ DocFreq(t, analyzed) >= min_df
     /\ 100 * DocFreq(t, analyzed) <= max_df_percent * Len(analyzed)}

\* the term counts X of the analyzed documents over the sorted vocabulary and
\* the document frequencies; ValueError on an empty vocabulary, on max_df
\* below min_df and when pruning leaves no term
CountTerms(analyzed, features) ==
  [raises |-> \/ UNION {Range(analyzed[d]) : d \in DOMAIN analyzed} = {}
              \/ max_df_percent * Len(analyzed) < 100 * min_df
              \/ features = <<>>,
   features |-> features,
   n_doc |-> Len(analyzed),
   df |-> List([j \in DOMAIN features |-> DocFreq(features[j], analyzed)]),
   X |-> List([d \in DOMAIN analyzed |->
                 List([j \in DOMAIN features |-> Occurrences(features[j], analyzed[d])])])]

\* the vocabulary of the analyzed documents pruned and sorted, the terms counted
CountAnalyzed(analyzed) == CountTerms(analyzed, SortedTerms(KeptTerms(analyzed)))

\* CountVectorizer.fit_transform on the raw documents
CountVocab(raw_documents) ==
  CountAnalyzed(List([d \in DOMAIN raw_documents |-> Analyze(raw_documents[d])]))

\* smooth idf: ln((1 + n) / (1 + df)) + 1, in thousandths
SmoothIdf(n_doc, df) == 1000 + RoundDiv(Ln1e5(1 + n_doc, 1 + df), 100)

\* the fitted attributes the vectorizer holds after fitting: vocabulary_, idf_
Fit(self, counted) ==
  [vocabulary_ |-> counted.features,
   idf_ |-> List([j \in DOMAIN counted.features |->
                    SmoothIdf(counted.n_doc, counted.df[j])])]

\* one row of counts weighted by idf and scaled to unit l2 norm
TfidfRow(counts, idf) ==
  LET w == List([j \in DOMAIN counts |-> counts[j] * idf[j]])
      norm == ISqrt(SumSeq(List([j \in DOMAIN w |-> w[j] * w[j]])))
  IN  List([j \in DOMAIN w |-> IF norm = 0 THEN 0 ELSE (w[j] * 10000) \div norm])

\* the transform with the idf_ the vectorizer holds
Transform(self, X) == List([d \in DOMAIN X |-> TfidfRow(X[d], self.idf_)])

\* cosine_similarity of two rows of unit norm (or zero), in units of 1e-4
Cosine(q, row) == RoundDiv(SumSeq(List([j \in DOMAIN q |-> q[j] * row[j]])), 10000)

\* similarities: the query row against every document row
Similarities(tfidf_matrix) ==
  LET n == Len(tfidf_matrix)
  IN  List([i \in 1 .. n - 1 |-> Cosine(tfidf_matrix[n], tfidf_matrix[i])])

(***************************************************************************)
(* NLPAnalyzer.rank_sections.  The section dicts live in a heap (a         *)
(* sequence of records) and a list of sections is a sequence of heap       *)
(* indices: the dicts rank_sections returns are the dicts it was given,    *)
(* with relevance_score set in place.                                      *)
(***************************************************************************)
\* relevance_score of a dict that has no such key yet
NoScore == -1

\* query = f"{persona} {job_to_be_done}"
Query(persona, job) == persona \o <<" ">> \o job

\* all_docs = documents + [query]
AllDocs(heap, sections, persona, job) ==
  List([i \in DOMAIN sections |-> heap[sections[i]].content]) \o <<Query(persona, job)>>

\* round(similarity_score * 0.7 + keyword_score * 0.3, 2), in hundredths
FinalScore(similarity_score, keyword_score) ==
  RoundDiv(7 * similarity_score + 3 * keyword_score, 10)

\* the position in sections of the first section whose keyword score raises,
\* or 0 when none does
RaisesAt(heap, sections, job) ==
  LET at == {i \in DOMAIN sections : KeywordScoreRaises(heap[sections[i]].content, job)}
  IN  IF at = {} THEN 0 ELSE CHOOSE i \in at : \A j \in at : i <= j

\* section['relevance_score'] += ..., where the code assigns
ScoreCombinedAdds(heap, sections, similarities, persona, job) ==
  List([id \in DOMAIN heap |->
     IF \E i \in DOMAIN sections : sections[i] = id
       THEN LET i == CHOOSE i \in DOMAIN sections : sections[i] = id
                old == IF heap[id].relevance_score = NoScore THEN 0
                       ELSE heap[id].relevance_score
            IN  [heap[id] EXCEPT !.relevance_score =
                   old + FinalScore(similarities[i],
                                    _calculate_keyword_score(heap[id].content, persona, job))]
       ELSE heap[id]])

\* the loop writing the score over the section's word_count
ScoreCombinedOverWordCount(heap, sections, similarities, persona, job) ==
  List([id \in DOMAIN heap |->
     IF \E i \in DOMAIN sections : sections[i] = id
       THEN LET i == CHOOSE i \in DOMAIN sections : sections[i] = id
            IN  [heap[id] EXCEPT !.word_count =
                   FinalScore(similarities[i],
                              _calculate_keyword_score(heap[id].content, persona, job))]
       ELSE heap[id]])

\* the heap after the scoring loop of the try block
ScoreCombined(heap, sections, similarities, persona, job) ==
  List([id \in DOMAIN heap |->
     IF \E i \in DOMAIN sections : sections[i] = id
       THEN LET i == CHOOSE i \in DOMAIN sections : sections[i] = id
            IN  [heap[id] EXCEPT !.relevance_score =
                   FinalScore(similarities[i],
                              _calculate_keyword_score(heap[id].content, persona, job))]
       ELSE heap[id]])

\* the except block scaling the keyword score as the try block does
ScoreFallbackScaled(heap, sections, persona, job, upto) ==
  List([id \in DOMAIN heap |->
     IF \E i \in DOMAIN sections : sections[i] = id /\ i <= upto
       THEN [heap[id] EXCEPT !.relevance_score =
               FinalScore(0, _calculate_keyword_score(heap[id].content, persona, job))]
       ELSE heap[id]])

\* the heap after the loop of the except block has scored sections[1..upto]
ScoreFallback(heap, sections, persona, job, upto) ==
  List([id \in DOMAIN heap |->
     IF \E i \in DOMAIN sections : sections[i] = id /\ i <= upto
       THEN [heap[id] EXCEPT !.relevance_score =
               _calculate_keyword_score(heap[id].content, persona, job)]
       ELSE heap[id]])

\* scored_sections.sort(key=relevance_score, reverse=True); scored_sections[:max_sections]
SortAndTruncate(heap, scored_sections, max_sections) ==
  LET pairs == List([i \in DOMAIN scored_sections |->
                       <<heap[scored_sections[i]].relevance_score, scored_sections[i]>>])
      sorted == SortDesc(pairs)
  IN  Slice(List([i \in DOMAIN sorted |-> sorted[i][2]]), max_sections)

\* what a call hands back: the vectorizer and the heap it leaves, the list it
\* returns and the path it took: "empty" (no section), "tfidf" (the try block
\* ran to its end), "fallback" (the except block did) or "raised" (the except
\* block raised in its turn)
Returns(self, scored, sections, max_sections, path) ==
  [self |-> self, heap |-> scored,
   returned |-> SortAndTruncate(scored, sections, max_sections), path |-> path]

\* the try block once fit_transform has counted the terms of all_docs, and
\* the except block when it raises ValueError
Scores(self, counted, heap, sections, persona, job, max_sections) ==
  IF counted.raises
    THEN Returns(self, ScoreFallback(heap, sections, persona, job, Len(sections)),
                 sections, max_sections, "fallback")
  ELSE Returns(Fit(self, counted),
               ScoreCombined(heap, sections,
                             Similarities(Transform(Fit(self, counted), counted.X)),
                             persona, job),
               sections, max_sections, "tfidf")

\* the call leaves by an exception of _calculate_keyword_score on section bad
Raises(self, counted, heap, sections, persona, job, bad) ==
  [self |-> IF counted.raises THEN self ELSE Fit(self, counted),
   heap |-> ScoreFallback(heap, sections, persona, job, bad - 1),
   returned |-> <<>>, path |-> "raised"]

\* the try and except blocks, given the counts of all_docs and the section
\* (or 0) on which _calculate_keyword_score raises
TryExcept(self, counted, heap, sections, persona, job, max_sections, bad) ==
  IF bad # 0
    THEN Raises(self, counted, heap, sections, persona, job, bad)
    ELSE Scores(self, counted, heap, sections, persona, job, max_sections)

rank_sections(self, heap, sections, persona, job, max_sections) ==
  IF sections = <<>>
    THEN [self |-> self, heap |-> heap, returned |-> <<>>, path |-> "empty"]
    ELSE TryExcept(self, CountVocab(AllDocs(heap, sections, persona, job)), heap, sections,
                   persona, job, max_sections, RaisesAt(heap, sections, job))
(***************************************************************************)
(* State                                                                   *)
(***************************************************************************)
VARIABLES
  text,              \* extract_sections: the text argument being put together
  n_pieces,          \* how many pieces text is made of
  min_length,        \* extract_sections: the min_length argument
  extracted,         \* extract_sections: the list returned
  seg_pc,            \* "compose" until extract_sections has run, then "done"
  heap,              \* the section dicts of the request, in order of creation
  all_sections,      \* process_documents: all_sections (heap indices)
  ranked_sections,   \* process_documents: ranked_sections (heap indices)
  tfidf_vectorizer,  \* NLPAnalyzer.tfidf_vectorizer: its fitted attributes
  n_docs,            \* how many documents process_documents has segmented
  call,              \* the last rank_sections call: arguments, result, the query before it
  first_call,        \* the first rank_sections call of the analyzer
  threads,           \* the rank_sections calls in progress on one analyzer
  results,           \* process_documents: the results it prepares
  analysis           \* analyze_subsection: the dict returned

seg_vars == <<text, n_pieces, min_length, extracted, seg_pc>>

rank_vars == <<heap, all_sections, ranked_sections, tfidf_vectorizer, n_docs, call, first_call>>

conc_vars == <<threads>>

req_vars == <<results, analysis>>

vars == <<seg_vars, rank_vars, conc_vars, req_vars>>

NoCall == [kind |-> "none"]

\* TfidfVectorizer(...) of __init__: nothing fitted yet
Unfitted == [vocabulary_ |-> <<>>, idf_ |-> <<>>]

SegIdle ==
  /\ text = <<>>
  /\ n_pieces = 0
  /\ min_length = 0
  /\ extracted = <<>>
  /\ seg_pc = "compose"

RankIdle ==
  /\ heap = <<>>
  /\ all_sections = <<>>
  /\ ranked_sections = <<>>
  /\ tfidf_vectorizer = Unfitted
  /\ n_docs = 0
  /\ call = NoCall
  /\ first_call = NoCall

\* a thread that has not called rank_sections
NotCalled == [pc |-> "idle"]

MaxThreads == 2

Threads == 1 .. MaxThreads

ConcIdle == threads = [t \in Threads |-> NotCalled]

\* no results prepared, analyze_subsection not called
NoResults == [kind |-> "none"]

ReqIdle == results = NoResults /\ analysis = NoResults

(***************************************************************************)
(* Segmentation: extract_sections applied to texts made of pieces          *)
(***************************************************************************)
MaxPieces == 3

MaxMinLength == 3

Pieces ==
  { <<"[", "P", "A", "G", "E", " ", "7", "]">>, <<"[", "P", "A", "G", "E", " ", "1", "2", "]">>, <<"\n">>, <<" ">>, <<"\n", "I", "N", "T", "R", "O", "D", "U", "C", "T", "I", "O", "N">>, <<"\n", "1", ".", " ", "I", "n", "t", "r", "o">>,
    <<"\n", "N", "O", "T", "E", "S", ":">>, <<"\n", "#", " ", "T", "o", "p">>, <<"t", "r", "i", "p", " ", "p", "l", "a", "n">> }

MinLengths == -1 .. MaxMinLength

InitSeg == SegIdle /\ RankIdle /\ ConcIdle /\ ReqIdle

\* the caller's text grows by one piece
AppendPiece(p) ==
  /\ seg_pc = "compose"
  /\ n_pieces < MaxPieces
  /\ text' = text \o p
  /\ n_pieces' = n_pieces + 1
  /\ UNCHANGED <<min_length, extracted, seg_pc, rank_vars, conc_vars, req_vars>>

\* sections = nlp_analyzer.extract_sections(text, min_length)
ExtractSections(m) ==
  /\ seg_pc = "compose"
  /\ min_length' = m
  /\ extracted' = extract_sections(text, m)
  /\ seg_pc' = "done"
  /\ UNCHANGED <<text, n_pieces, rank_vars, conc_vars, req_vars>>

NextSeg ==
  \/ \E p \in Pieces : AppendPiece(p)
  \/ \E m \in MinLengths : ExtractSections(m)

SpecSeg == InitSeg /\ [][NextSeg]_vars

(***************************************************************************)
(* process_documents: the sections of the uploaded documents are pooled,   *)
(* then ranked; further rank_sections calls on the same analyzer follow    *)
(***************************************************************************)
Init == SegIdle /\ RankIdle /\ ConcIdle /\ ReqIdle

\* the sections of a document with their 'document' key set
Pooled(sections, filename) ==
  List([i \in DOMAIN sections |->
          [title |-> sections[i].title,
           content |-> sections[i].content,
           page_number |-> sections[i].page_number,
           word_count |-> sections[i].word_count,
           document |-> filename,
           relevance_score |-> NoScore]])

\* all_sections.append(section) for each of the dicts
Appends(dicts) ==
  /\ heap' = heap \o dicts
  /\ all_sections' = all_sections \o [i \in DOMAIN dicts |-> Len(heap) + i]

\* one iteration of the loop over all_documents: the document's sections,
\* each with its 'document' key set, are appended to all_sections
ProcessDocument(doc) ==
  /\ call = NoCall
  /\ n_docs < MaxDocs
  /\ Appends(Pooled(extract_sections(doc.content, MinSectionLength), doc.filename))
  /\ n_docs' = n_docs + 1
  /\ UNCHANGED <<ranked_sections, tfidf_vectorizer, call, first_call, seg_vars, conc_vars, req_vars>>

\* the record of a call that handed back r
CallRecord(kind, sections, persona, job, max_sections, r) ==
  [kind |-> kind, sections |-> sections, persona |-> persona, job |-> job,
   max_sections |-> max_sections, returned |-> r.returned, path |-> r.path,
   after |-> IF call = NoCall THEN <<>> ELSE Query(call.persona, call.job),
   scores |-> List([i \in DOMAIN r.returned |-> r.heap[r.returned[i]].relevance_score])]

\* the state a rank_sections call that recorded c and handed back r leaves
Leaves(c, r) ==
  /\ heap' = r.heap
  /\ tfidf_vectorizer' = r.self
  /\ ranked_sections' = IF r.path = "raised" THEN ranked_sections ELSE r.returned
  /\ call' = c
  /\ first_call' = IF first_call = NoCall THEN c ELSE first_call
  /\ UNCHANGED <<all_sections, n_docs, seg_vars, conc_vars, req_vars>>

Returned(kind, sections, persona, job, max_sections, r) ==
  Leaves(CallRecord(kind, sections, persona, job, max_sections, r), r)

Ranks(kind, sections, persona, job, max_sections) ==
  Returned(kind, sections, persona, job, max_sections,
           rank_sections(tfidf_vectorizer, heap, sections, persona, job, max_sections))

\* ranked_sections = nlp_analyzer.rank_sections(all_sections, persona, job, max_sections)
RankSections(persona, job, max_sections) ==
  /\ n_docs > 0
  /\ call = NoCall
  /\ Ranks("rank", all_sections, persona, job, max_sections)

\* a later rank_sections call of the same analyzer on the pool, with any query
RankAgain(persona, job) ==
  /\ call # NoCall
  /\ Ranks("again", all_sections, persona, job, call.max_sections)

\* rank_sections on the list the last call returned, with its query and limit
ReRank ==
  /\ call # NoCall
  /\ Ranks("rerank", ranked_sections, call.persona, call.job, call.max_sections)

Next ==
  \/ \E doc \in Documents : ProcessDocument(doc)
  \/ \E persona \in Personas, job \in Jobs, m \in MaxSectionsValues :
       RankSections(persona, job, m)
  \/ \E persona \in Personas, job \in Jobs : RankAgain(persona, job)
  \/ ReRank

Spec == Init /\ [][Next]_vars

(***************************************************************************)
(* rank_sections calls of several threads on one NLPAnalyzer: the calls    *)
(* share self.tfidf_vectorizer, and a thread may be switched out between   *)
(* the fit and the transform of fit_transform                              *)
(***************************************************************************)
DefaultMaxSections == 10

\* the section lists the threads rank: the sections of one document each
Contents(sections) == List([i \in DOMAIN sections |-> sections[i].content])

ConcPools == {Contents(extract_sections(doc.content, MinSectionLength)) : doc \in Documents}

\* the section dicts of a thread's list, not scored yet
OwnHeap(contents) ==
  List([i \in DOMAIN contents |-> [content |-> contents[i], relevance_score |-> NoScore]])

OwnSections(contents) == List([i \in DOMAIN contents |-> i])

InitConc ==
  /\ SegIdle
  /\ heap = <<>>
  /\ all_sections = <<>>
  /\ ranked_sections = <<>>
  /\ tfidf_vectorizer = Unfitted
  /\ n_docs = 0
  /\ call = NoCall
  /\ first_call = NoCall
  /\ ConcIdle
  /\ ReqIdle

ConcUnchanged ==
  UNCHANGED <<seg_vars, heap, all_sections, ranked_sections, n_docs, call, first_call, req_vars>>

\* thread t enters rank_sections(sections, persona, job) and builds all_docs
Enter(t, contents, persona, job) ==
  /\ threads[t].pc = "idle"
  /\ contents # <<>>
  /\ threads' = [threads EXCEPT ![t] =
       [pc |-> "fit", heap |-> OwnHeap(contents), persona |-> persona, job |-> job,
        X |-> <<>>, tfidf_matrix |-> <<>>, returned |-> <<>>, path |-> "none"]]
  /\ UNCHANGED tfidf_vectorizer
  /\ ConcUnchanged

\* thread t has counted the terms of its all_docs
Fits(t, counted) ==
  IF counted.raises
    THEN /\ threads' = [threads EXCEPT ![t].pc = "except"]
         /\ UNCHANGED tfidf_vectorizer
    ELSE /\ threads' = [threads EXCEPT ![t].pc = "transform", ![t].X = counted.X]
         /\ tfidf_vectorizer' = Fit(tfidf_vectorizer, counted)

\* fit_transform, first half: the counts of all_docs are the thread's own, the
\* fitted attributes are stored in the vectorizer; a ValueError goes to except
FitStep(t) ==
  /\ threads[t].pc = "fit"
  /\ Fits(t, CountVocab(AllDocs(threads[t].heap, OwnSections(threads[t].heap),
                                threads[t].persona, threads[t].job)))
  /\ ConcUnchanged

\* fit_transform, second half: the thread's counts are weighted with the idf_
\* the vectorizer holds now; counts of another width raise ValueError
TransformStep(t) ==
  /\ threads[t].pc = "transform"
  /\ LET th == threads[t]
     IN  IF Len(th.X[1]) # Len(tfidf_vectorizer.idf_)
           THEN threads' = [threads EXCEPT ![t].pc = "except"]
           ELSE threads' = [threads EXCEPT ![t].pc = "score",
                                           ![t].tfidf_matrix = Transform(tfidf_vectorizer, th.X)]
  /\ UNCHANGED tfidf_vectorizer
  /\ ConcUnchanged

\* thread t leaves rank_sections with its sections scored
Finishes(t, scored, path) ==
  threads' = [threads EXCEPT ![t].pc = "done", ![t].heap = scored, ![t].path = path,
                ![t].returned = SortAndTruncate(scored, OwnSections(scored),
                                                DefaultMaxSections)]

\* the similarities, the scoring loop of the try block, the sort and the slice
ScoreStep(t) ==
  /\ threads[t].pc = "score"
  /\ Finishes(t, ScoreCombined(threads[t].heap, OwnSections(threads[t].heap),
                               Similarities(threads[t].tfidf_matrix),
                               threads[t].persona, threads[t].job), "tfidf")
  /\ UNCHANGED tfidf_vectorizer
  /\ ConcUnchanged

\* the except block, the sort and the slice
ExceptStep(t) ==
  /\ threads[t].pc = "except"
  /\ Finishes(t, ScoreFallback(threads[t].heap, OwnSections(threads[t].heap),
                               threads[t].persona, threads[t].job,
                               Len(threads[t].heap)), "fallback")
  /\ UNCHANGED tfidf_vectorizer
  /\ ConcUnchanged

NextConc ==
  \/ \E t \in Threads, contents \in ConcPools, persona \in Personas, job \in Jobs :
       Enter(t, contents, persona, job)
  \/ \E t \in Threads : FitStep(t)
  \/ \E t \in Threads : TransformStep(t)
  \/ \E t \in Threads : ScoreStep(t)
  \/ \E t \in Threads : ExceptStep(t)

SpecConc == InitConc /\ [][NextConc]_vars

(***************************************************************************)
(* process_documents, to its end: the ranked sections are numbered, the    *)
(* first of them are analysed, and the results are put together            *)
(***************************************************************************)
TopK == 5

\* the uploaded documents of a request whose pool outgrows the analysed top
ReqDocuments ==
  { [filename |-> "r.pdf",
     content |-> <<"[", "P", "A", "G", "E", " ", "1", "]", "t", "r", "i", "p", " ", "h", "o", "t", "e", "l", "[", "P", "A", "G", "E", " ", "2", "]", "a", "u", "d", "i", "t", " ", "p", "l", "a", "n", " ", "t", "h", "e", "[", "P", "A", "G", "E", " ", "3", "]", "w", "e", " ", "p", "l", "a", "n", " ", "t", "h", "e", " ", "h", "o", "t", "e", "l", " ", "t", "r", "i", "p", ".", " ", "o", "k">>],
    [filename |-> "s.pdf", content |-> <<"[", "P", "A", "G", "E", " ", "4", "]", "a", "u", "d", "i", "t", "[", "P", "A", "G", "E", " ", "5", "]", "h", "o", "t", "e", "l", " ", "p", "l", "a", "n", "[", "P", "A", "G", "E", " ", "6", "]", "t", "r", "i", "p", " ", "a", "u", "d", "i", "t">>],
    [filename |-> "c.txt", content |-> <<"A", "u", "d", "i", "t", "o", "r", " ", "a", "u", "d", "i", "t">>] }

ReqMaxSections == {MaxMaxSections, DefaultMaxSections}

\* enumerate(ranked_sections): each item with its 0-based index
Enumerate(seq) == List([k \in DOMAIN seq |-> <<k - 1, seq[k]>>])

\* one dict of results['extracted_sections']
ExtractedSection(i, section) ==
  [document |-> section.document,
   section_title |-> section.title,
   importance_rank |-> i + 1,
   page_number |-> section.page_number,
   relevance_score |-> section.relevance_score]

ExtractedSections(pairs) ==
  List([k \in DOMAIN pairs |-> ExtractedSection(pairs[k][1], heap[pairs[k][2]])])

\* the whole ranked list
AllRanked(ranked) == ranked

\* ranked_sections[:5]
TopRanked(ranked) == Slice(ranked, TopK)

\* one dict of subsection_analysis
SubsectionAnalysis(section) ==
  [document |-> section.document,
   refined_text |-> analyze_subsection(section.content).summary,
   page_number |-> section.page_number]

SubsectionAnalyses(top) ==
  List([k \in DOMAIN top |-> SubsectionAnalysis(heap[top[k]])])

\* the steps of process_documents after rank_sections has returned
PrepareResults ==
  /\ call # NoCall
  /\ call.kind = "rank"
  /\ call.path # "raised"
  /\ results = NoResults
  /\ results' = [kind |-> "results",
                 extracted_sections |-> ExtractedSections(Enumerate(ranked_sections)),
                 subsection_analysis |-> SubsectionAnalyses(TopRanked(ranked_sections))]
  /\ UNCHANGED <<seg_vars, rank_vars, conc_vars, analysis>>

NextReq ==
  \/ \E doc \in ReqDocuments : ProcessDocument(doc)
  \/ \E persona \in Personas, job \in Jobs, m \in ReqMaxSections :
       RankSections(persona, job, m)
  \/ PrepareResults

SpecReq == Init /\ [][NextReq]_vars

(***************************************************************************)
(* _extract_keywords and analyze_subsection, each called on a text that    *)
(* the caller has put together from sentences                              *)
(***************************************************************************)
MaxSumPieces == 4

SumPieces ==
  { <<"A", "l", "p", "h", "a", " ", "b", "e", "t", "a", " ", "g", "a", "m", "m", "a", " ", "d", "e", "l", "t", "a", " ", "e", "p", "s", "i", "l", "o", "n", " ", "z", "e", "t", "a", ".", " ">>,
    <<"E", "t", "a", " ", "t", "h", "e", "t", "a", " ", "i", "o", "t", "a", " ", "k", "a", "p", "p", "a", " ", "l", "a", "m", "b", "d", "a", " ", "o", "m", "i", "c", "r", "o", "n", "!", " ">>,
    <<"R", "h", "o", " ", "s", "i", "g", "m", "a", " ", "t", "a", "u", " ", "u", "p", "s", "i", "l", "o", "n", " ", "p", "h", "i", " ", "c", "h", "i", "?", "!", " ", "O", "k", " ", "s", "o", ".", " ">>,
    <<"T", "h", "e", " ", "t", "r", "i", "p", " ", "t", "o", " ", "t", "h", "e", " ", "h", "o", "t", "e", "l", " ", "i", "s", " ", "i", "n", " ", "t", "h", "e", " ", "t", "r", "i", "p", " ", "p", "l", "a", "n", " ", "o", "f", " ", "t", "h", "e", " ", "c", "a", "r", ",", " ", "a", "n", "d", " ", "i", "t", " ", "i", "s", " ", "o", "n", " ", "a", " ", "o", "r", " ", "b", "y", ".", " ">>,
    <<"H", "o", "t", "e", "l", " ", "t", "r", "i", "p", " ", "p", "l", "a", "n", ".", " ">>,
    <<"w", "e", " ", "g", "o", " ", "b", "y", " ", "c", "a", "r", " ", "t", "o", " ", "R", "o", "m", "e", "\n">> }

\* the caller's text grows by one sentence
AppendSentence(p) ==
  /\ analysis = NoResults
  /\ n_pieces < MaxSumPieces
  /\ text' = text \o p
  /\ n_pieces' = n_pieces + 1
  /\ UNCHANGED <<min_length, extracted, seg_pc, rank_vars, conc_vars, req_vars>>

\* keywords = self._extract_keywords(text)
ExtractKeywords ==
  /\ analysis = NoResults
  /\ analysis' = [kind |-> "keywords", keywords |-> _extract_keywords(text)]
  /\ UNCHANGED <<seg_vars, rank_vars, conc_vars, results>>

\* analysis = nlp_analyzer.analyze_subsection(text)
AnalyzeSubsection ==
  /\ analysis = NoResults
  /\ analysis' = [kind |-> "analysis",
                  summary |-> analyze_subsection(text).summary,
                  keywords |-> analyze_subsection(text).keywords]
  /\ UNCHANGED <<seg_vars, rank_vars, conc_vars, results>>

NextSum ==
  \/ \E p \in SumPieces : AppendSentence(p)
  \/ ExtractKeywords
  \/ AnalyzeSubsection

SpecSum == InitSeg /\ [][NextSum]_vars

(***************************************************************************)
(* Properties of rank_sections (specification Spec)                        *)
(***************************************************************************)
Made == call # NoCall

ScoreOf(id) == heap[id].relevance_score

Pos(seq, x) == CHOOSE i \in DOMAIN seq : seq[i] = x

Min(a, b) == IF a < b THEN a ELSE b

\* C1: on a non-empty pool of n sections and max_sections >= 0, rank_sections
\* returns exactly min(max_sections, n) of the sections, in non-increasing
\* order of relevance_score, and no section it leaves out scores strictly
\* higher than one it returns.
C1_ReturnsTopSections ==
  (Made /\ call.sections # <<>> /\ call.max_sections >= 0) =>
     /\ Len(call.returned) = Min(call.max_sections, Len(call.sections))
     /\ Range(call.returned) \subseteq Range(call.sections)
     /\ \A i \in DOMAIN call.returned : \A j \in DOMAIN call.returned :
          i < j => ScoreOf(call.returned[i]) >= ScoreOf(call.returned[j])
     /\ \A out \in Range(call.sections) \ Range(call.returned) :
          \A r \in Range(call.returned) : ScoreOf(out) <= ScoreOf(r)

\* a call that truncates: a section scoring strictly lower than every
\* returned one is left out
C1_Witness ==
  /\ Made
  /\ call.max_sections >= 1
  /\ Len(call.returned) = call.max_sections
  /\ \E out \in Range(call.sections) \ Range(call.returned) :
       \A r \in Range(call.returned) : ScoreOf(out) < ScoreOf(r)

\* C2: rank_sections called with max_sections <= 0 returns the empty list and
\* does not raise.
C2_EmptyWhenNotPositive ==
  (Made /\ call.max_sections <= 0) => (call.returned = <<>> /\ call.path # "raised")

\* C3: two returned sections of equal relevance_score are in the relative
\* order they have in the list given to rank_sections; for the pool that is
\* the order in which process_documents appended them.
C3_StableRanking ==
  Made =>
    \A i \in DOMAIN call.returned : \A j \in DOMAIN call.returned :
      (i < j /\ ScoreOf(call.returned[i]) = ScoreOf(call.returned[j])) =>
         /\ Pos(call.sections, call.returned[i]) < Pos(call.sections, call.returned[j])
         /\ call.sections = all_sections => call.returned[i] < call.returned[j]

\* a ranking of the pool that returns two sections of equal score after a
\* section of higher score
C3_Witness ==
  /\ Made
  /\ call.sections = all_sections
  /\ \E i \in DOMAIN call.returned : \E j \in DOMAIN call.returned :
       /\ 1 < i /\ i < j
       /\ ScoreOf(call.returned[i]) = ScoreOf(call.returned[j])
       /\ ScoreOf(call.returned[1]) > ScoreOf(call.returned[i])

SameArguments(c, d) ==
  /\ c.sections = d.sections
  /\ c.persona = d.persona
  /\ c.job = d.job
  /\ c.max_sections = d.max_sections

\* C6: a later rank_sections call with the arguments of the analyzer's first
\* call returns the same sections in the same order with the same scores,
\* whatever calls came in between and whatever scores they left.
C6_Deterministic ==
  (Made /\ call.kind = "again" /\ SameArguments(call, first_call)) =>
     /\ call.returned = first_call.returned
     /\ call.scores = first_call.scores
     /\ call.path = first_call.path

\* the first call repeated right after a call with another query, which
\* refitted the vectorizer and left other scores on the sections
C6_Witness ==
  /\ Made
  /\ call.kind = "again"
  /\ SameArguments(call, first_call)
  /\ call.after # Query(call.persona, call.job)
  /\ call.path = "tfidf"
  /\ Len(call.returned) >= 2

\* C7, unrestricted: rank_sections on its own output, with the same query and
\* limit, returns it in the same order.
C7_ReRankKeepsOrder ==
  (Made /\ call.kind = "rerank" /\ call.max_sections >= 0) =>
     call.returned = call.sections

\* C7 amended: the same, for a limit that did not truncate the pool.
C7_ReRankKeepsOrderUntruncated ==
  (Made /\ call.kind = "rerank" /\ call.max_sections >= Len(all_sections)) =>
     call.returned = call.sections

\* a whole pool of sections of different scores ranked again
C7_Witness ==
  /\ Made
  /\ call.kind = "rerank"
  /\ call.max_sections >= Len(all_sections)
  /\ Len(call.sections) >= 2
  /\ ScoreOf(call.returned[1]) > ScoreOf(call.returned[Len(call.returned)])

\* C8: no call raises, and a call whose vectorization failed leaves on every
\* one of its sections the keyword score alone, unscaled.
C8_FallbackIsKeywordScore ==
  Made =>
    /\ call.path # "raised"
    /\ call.path = "fallback" =>
         \A id \in Range(call.sections) :
           ScoreOf(id) = _calculate_keyword_score(heap[id].content, call.persona, call.job)

\* a fallback over two sections, one at least with a positive keyword score
C8_Witness ==
  /\ Made
  /\ call.path = "fallback"
  /\ Len(call.sections) >= 2
  /\ \E id \in Range(call.sections) : ScoreOf(id) > 0

\* C9: a pool of a single section takes the fallback path, so that its
\* relevance_score is its keyword score alone.
C9_SingleSectionFallsBack ==
  (Made /\ call.sections = all_sections /\ Len(call.sections) = 1) =>
     /\ call.path = "fallback"
     /\ ScoreOf(call.sections[1]) =
          _calculate_keyword_score(heap[call.sections[1]].content, call.persona, call.job)

(***************************************************************************)
(* Properties of extract_sections (specification SpecSeg)                  *)
(***************************************************************************)
Segmented == seg_pc = "done"

\* the offsets at which a whitespace-delimited token of s starts
TokenStarts(s) == {i \in DOMAIN s : s[i] \notin Space /\ (i = 1 \/ s[i - 1] \in Space)}

\* s holds the page marker "[PAGE d1..dk]" at offset i
MarkerAt(s, i, k) ==
  /\ k >= 1
  /\ i + 7 + k <= Len(s)
  /\ SubSeq(s, i + 1, i + 6) = <<"[", "P", "A", "G", "E", " ">>
  /\ \A j \in 1 .. k : s[i + 6 + j] \in Digit
  /\ s[i + 7 + k] = "]"

HasMarker(s) == \E i \in 0 .. Len(s) : \E k \in 1 .. Len(s) : MarkerAt(s, i, k)

\* C4: every section extract_sections returns has word_count equal to the
\* number of whitespace-delimited tokens of its content, and at least
\* min_length.
C4_WordCount ==
  Segmented =>
    \A i \in DOMAIN extracted :
      /\ extracted[i].word_count = Cardinality(TokenStarts(extracted[i].content))
      /\ extracted[i].word_count >= min_length

\* a section is returned and a candidate with fewer words is discarded
C4_Witness ==
  /\ Segmented
  /\ min_length >= 2
  /\ Len(extracted) >= 1
  /\ Len(extracted) < Cardinality(Boundaries(text)) - 1

\* C10: a returned section whose content starts with [PAGE n] has page_number
\* n, and one whose content holds no page marker has page_number 1.
C10_PageNumber ==
  Segmented =>
    \A i \in DOMAIN extracted :
      LET content == extracted[i].content
      IN  /\ \A k \in 1 .. Len(content) :
               MarkerAt(content, 0, k) =>
                 extracted[i].page_number = ParseInt(SubSeq(content, 7, 6 + k))
          /\ ~HasMarker(content) => extracted[i].page_number = 1

\* a section that starts with [PAGE 12] and goes on is returned with page 12,
\* next to a section without marker
C10_Witness ==
  /\ Segmented
  /\ \E i \in DOMAIN extracted :
       /\ MarkerAt(extracted[i].content, 0, 2)
       /\ Len(extracted[i].content) > 9
       /\ extracted[i].page_number = 12
  /\ \E i \in DOMAIN extracted :
       ~HasMarker(extracted[i].content) /\ extracted[i].page_number = 1

(***************************************************************************)
(* Properties of concurrent rank_sections calls (specification SpecConc)   *)
(***************************************************************************)
\* what the call of thread record th hands back when it has a vectorizer of its own
Alone(th) ==
  rank_sections(Unfitted, OwnHeap(Contents(th.heap)), OwnSections(th.heap),
                th.persona, th.job, DefaultMaxSections)

SameResult(th, r) == th.path = r.path /\ th.heap = r.heap /\ th.returned = r.returned

\* C5: calls share no mutable state: a call that interleaves with another on
\* the same analyzer scores its sections as with a vectorizer constructed
\* for it alone, never with weights fitted from the other call's corpus.
C5_NoSharedVectorizer ==
  \A t \in Threads : threads[t].pc = "done" => SameResult(threads[t], Alone(threads[t]))

Prepared == results # NoResults

\* C11: in the results of a request the extracted sections are the ranked
\* sections in order, numbered 1..n by importance_rank, with relevance_score
\* non-increasing in importance_rank; the subsection analyses are one per
\* section of the first min(5, n) ranked sections, in ranked order, each with
\* the document and page_number of the section at the same position
C11_ResultsFollowRanking ==
  Prepared =>
    /\ Len(results.extracted_sections) = Len(ranked_sections)
    /\ \A i \in DOMAIN results.extracted_sections :
         /\ results.extracted_sections[i].importance_rank = i
         /\ results.extracted_sections[i].document = heap[ranked_sections[i]].document
         /\ results.extracted_sections[i].section_title = heap[ranked_sections[i]].title
         /\ results.extracted_sections[i].relevance_score = ScoreOf(ranked_sections[i])
    /\ \A i, j \in DOMAIN results.extracted_sections :
         results.extracted_sections[i].importance_rank
             < results.extracted_sections[j].importance_rank
           => results.extracted_sections[i].relevance_score
                >= results.extracted_sections[j].relevance_score
    /\ Len(results.subsection_analysis) = Min(5, Len(ranked_sections))
    /\ \A i \in DOMAIN results.subsection_analysis :
         /\ results.subsection_analysis[i].document = heap[ranked_sections[i]].document
         /\ results.subsection_analysis[i].page_number
              = heap[ranked_sections[i]].page_number
         /\ results.subsection_analysis[i].refined_text
              = analyze_subsection(heap[ranked_sections[i]].content).summary

\* results of six ranked sections of which five are analysed, one of them
\* with a summary
C11_Witness ==
  /\ Prepared
  /\ Len(results.extracted_sections) = 6
  /\ Len(results.subsection_analysis) = 5
  /\ \E i \in DOMAIN results.subsection_analysis :
       results.subsection_analysis[i].refined_text # <<>>
  /\ \E i \in DOMAIN results.extracted_sections :
       results.extracted_sections[i].relevance_score
         > results.extracted_sections[6].relevance_score

Frequency(w, tokens) == Cardinality({i \in DOMAIN tokens : tokens[i] = w})

FirstOccurrence(w, tokens) ==
  CHOOSE i \in DOMAIN tokens : tokens[i] = w /\ \A j \in 1 .. i - 1 : tokens[j] # w

Qualifies(w) == Len(w) > 2 /\ w \notin stop_words

\* a comes before b in the order by descending frequency, then first occurrence
Precedes(a, b, tokens) ==
  \/ Frequency(a, tokens) > Frequency(b, tokens)
  \/ /\ Frequency(a, tokens) = Frequency(b, tokens)
     /\ FirstOccurrence(a, tokens) < FirstOccurrence(b, tokens)

\* keywords are qualifying tokens, each before the next in the order, and the
\* qualifying tokens left out come after the last of max keywords
TopOfOrder(keywords, tokens, max) ==
  /\ Len(keywords) <= max
  /\ \A i \in DOMAIN keywords :
       /\ keywords[i] \in Range(tokens)
       /\ Qualifies(keywords[i])
       /\ i < Len(keywords) => Precedes(keywords[i], keywords[i + 1], tokens)
  /\ \A w \in Range(tokens) :
       Qualifies(w) /\ w \notin Range(keywords)
         => Len(keywords) = max /\ Precedes(keywords[max], w, tokens)

KeywordsExtracted == analysis.kind = "keywords"

\* C12: _extract_keywords returns at most 20 distinct tokens of the text, none
\* of length <= 2 and none a stop word, ordered by descending frequency and,
\* at equal frequency, by first occurrence; a qualifying token is left out
\* only when 20 are returned, and it comes after them in that order
C12_KeywordOrder ==
  KeywordsExtracted => TopOfOrder(analysis.keywords, Split(CleanText(text)), 20)

MostFrequentLast(keywords, tokens) ==
  /\ \E w \in Range(tokens) : Qualifies(w) /\ w \notin Range(keywords)
  /\ Frequency(keywords[1], tokens) > Frequency(keywords[2], tokens)
  /\ FirstOccurrence(keywords[1], tokens) > FirstOccurrence(keywords[2], tokens)
  /\ Frequency(keywords[2], tokens) = Frequency(keywords[3], tokens)

\* more than 20 tokens qualify, the most frequent one occurs after the others
\* in the text and is returned first, and tokens of equal frequency follow it
C12_Witness ==
  /\ KeywordsExtracted
  /\ Len(analysis.keywords) = 20
  /\ MostFrequentLast(analysis.keywords, Split(CleanText(text)))

\* the sentences of at least 5 whitespace tokens, by their position
Eligible(sentences) == {i \in DOMAIN sentences : Len(Split(sentences[i])) >= 5}

\* token_count + 2 * number of keywords extracted from the sentence
ScoresOf(sentences) ==
  List([i \in DOMAIN sentences |->
          Len(Split(sentences[i])) + 2 * Len(_extract_keywords(sentences[i]))])

\* the sentences among those given that are listed before sentence i
Ahead(i, scores, among) ==
  {j \in among : scores[j] > scores[i] \/ (scores[j] = scores[i] /\ j < i)}

Chosen(k, scores, among) ==
  CHOOSE i \in among : Cardinality(Ahead(i, scores, among)) = k - 1

BestSentences(sentences, scores, among) ==
  List([k \in 1 .. Min(3, Cardinality(among)) |-> sentences[Chosen(k, scores, among)]])

SummaryOf(sentences) ==
  Join(BestSentences(sentences, ScoresOf(sentences), Eligible(sentences)))

Analyzed == analysis.kind = "analysis"

\* C13: the summary of analyze_subsection is the single-space join of at most
\* 3 sentences of the text, each of at least 5 whitespace tokens: the highest
\* by score (token count + 2 * keywords extracted from the sentence), in
\* descending score order, sentences of equal score in reading order;
\* sentences of fewer than 5 tokens never appear
C13_Summary ==
  Analyzed => analysis.summary = SummaryOf(_split_sentences(text))

\* four sentences are eligible and one is too short; the last of the three
\* listed has the score of an eligible sentence that is left out
Crowded(scores, among) ==
  /\ Cardinality(among) > 3
  /\ among # DOMAIN scores
  /\ \E i \in among :
       /\ Cardinality(Ahead(i, scores, among)) >= 3
       /\ scores[i] = scores[Chosen(3, scores, among)]
  /\ scores[Chosen(1, scores, among)] > scores[Chosen(2, scores, among)]
  /\ Chosen(1, scores, among) > Chosen(2, scores, among)

CrowdedText(sentences) == Crowded(ScoresOf(sentences), Eligible(sentences))

C13_Witness ==
  /\ Analyzed
  /\ analysis.summary # <<>>
  /\ CrowdedText(_split_sentences(text))

(***************************************************************************)
(* Page markers in the sections of extract_sections (specification SpecSeg)*)
(***************************************************************************)
\* content is a page marker and nothing else
BareMarker(content) ==
  \E k \in 1 .. Len(content) : MarkerAt(content, 0, k) /\ Len(content) = 7 + k

\* C14, for every min_length: extract_sections returns no section whose
\* content is a page marker [PAGE n] and nothing else
C14_NoBareMarker ==
  Segmented => \A i \in DOMAIN extracted : ~BareMarker(extracted[i].content)

\* C14: for min_length >= 3, extract_sections returns no section whose content
\* is a page marker [PAGE n] and nothing else; the marker is two whitespace
\* tokens, which the min-length filter discards
C14_NoBareMarkerFromThree ==
  Segmented /\ min_length >= 3
    => \A i \in DOMAIN extracted : ~BareMarker(extracted[i].content)

\* the text starts with a marker that the next marker follows at once, and
\* with min_length 3 a section is returned
C14_Witness ==
  /\ Segmented
  /\ min_length >= 3
  /\ \E k \in 1 .. 2 : MarkerAt(text, 0, k) /\ \E n \in 1 .. 2 : MarkerAt(text, 7 + k, n)
  /\ extracted # <<>>

\* the offsets of content at which a page marker starts
MarkerOffsets(content) ==
  {o \in 0 .. Len(content) : \E k \in 1 .. Len(content) : MarkerAt(content, o, k)}

\* C16: the content of a section extract_sections returns holds at most one
\* page marker, at offset 0 if it holds one, and a section has a page_number
\* other than 1 only if its content begins with a page marker
C16_MarkerLeadsContent ==
  Segmented =>
    \A i \in DOMAIN extracted :
      /\ MarkerOffsets(extracted[i].content) \subseteq {0}
      /\ extracted[i].page_number # 1 => 0 \in MarkerOffsets(extracted[i].content)

\* a section that begins with a marker of a page other than 1 is followed by
\* a section that a header starts, which holds no marker and reports page 1
C16_Witness ==
  /\ Segmented
  /\ \E i \in DOMAIN extracted : \E j \in DOMAIN extracted :
       /\ j = i + 1
       /\ MarkerOffsets(extracted[i].content) = {0}
       /\ extracted[i].page_number # 1
       /\ MarkerOffsets(extracted[j].content) = {}
       /\ extracted[j].page_number = 1
  /\ Cardinality(MarkerOffsets(text)) = 1

(***************************************************************************)
(* What rank_sections leaves of its input (specification Spec)             *)
(***************************************************************************)
\* dict b is dict a but for its relevance_score
SameButScore(a, b) ==
  /\ b.title = a.title
  /\ b.content = a.content
  /\ b.page_number = a.page_number
  /\ b.word_count = a.word_count
  /\ b.document = a.document

\* the list the call of this step was given
InputOfStep == IF call'.kind = "rerank" THEN ranked_sections ELSE all_sections

\* a step that is a rank_sections call: no document is added
RankStep == n_docs' = n_docs /\ call' # NoCall

\* C15: a rank_sections call leaves title, content, page_number, word_count
\* and document of every section as they were, the caller's list of sections
\* with its length and order, and returns sections of that list, none twice
C15_OnlyScoreChanges ==
  [][RankStep =>
       /\ DOMAIN heap' = DOMAIN heap
       /\ \A id \in DOMAIN heap : SameButScore(heap[id], heap'[id])
       /\ all_sections' = all_sections
       /\ call'.sections = InputOfStep
       /\ \A i \in DOMAIN call'.returned : call'.returned[i] \in Range(InputOfStep)
       /\ \A i, j \in DOMAIN call'.returned :
            call'.returned[i] = call'.returned[j] => i = j]_vars

\* a call on a pool of several sections has scored them all and returned
\* some of them, truncating the others away
C15_Witness ==
  /\ Made
  /\ call.path = "tfidf"
  /\ call.sections = all_sections
  /\ Len(call.returned) >= 2
  /\ Len(call.returned) < Len(all_sections)
  /\ \A i \in DOMAIN all_sections : ScoreOf(all_sections[i]) # NoScore
  /\ \E i \in DOMAIN all_sections :
       /\ all_sections[i] \notin Range(call.returned)
       /\ heap[all_sections[i]].word_count >= 2

====
